---- MODULE Spec2Model ----
(***************************************************************************)
(* A model of the CBOR decoder of src/src/decoder.c.                       *)
(*                                                                         *)
(* The decoder is a recursive loop (decode_cbor) over the items of a      *)
(* message; every iteration classifies one header byte, validates the     *)
(* buffers and calls the handler of the item's major type.  The model is  *)
(* a state machine whose steps are the iterations of that loop: one       *)
(* action per handler, one for a failed validation, one for the loop      *)
(* running out of input or output, and one for each return.  The C call   *)
(* stack of decode_cbor activations is the variable stack.                *)
(*                                                                         *)
(* Build modelled: CBOR_BIG_ENDIAN undefined (copy_data is copy_data_le)  *)
(* on a little-endian LP64 host, so that a uint64_t seen through a        *)
(* uint8_t pointer has its least significant byte first and size_t is 64  *)
(* bits wide.                                                             *)
(***************************************************************************)
EXTENDS Integers, Sequences, FiniteSets, TLC

\* ------------------------------------------------------------------ bounds

\* Longest message drawn from ByteAlphabet.
MaxMsgLen == 3

\* Largest output capacity tried with a message drawn from ByteAlphabet.
MaxBufSize == 4

\* ------------------------------------------------------- program constants

INDEFINITE_VALUE == 255

RESERVED_VALUE == 254

ADDITIONAL_INFO_MASK == 31

\* cbor/cbor.h sets it; decoder.c only requires it to be below 256.
CBOR_RECURSION_MAX_LEVEL == 8

\* sizeof(uint64_t)
SizeofUint64 == 8

\* Values of size_t and uint64_t that exceed every size of the model are
\* kept as this one value: lengths are only compared with remaining sizes
\* and with item counts, all of which are far below it.
HugeLen == 1048576

Min(a, b) == IF a > b THEN b ELSE a

\* ------------------------------------------------------------------ inputs

\* The header and payload bytes of the messages tried in every combination.
\*   0x01 unsigned 1              0x38 negative, 1 byte
\*   0x42 byte string of 2        0x80 empty array / payload 128
\*   0x82 array of 2              0x9F array, indefinite
\*   0xF8 simple value, extension byte
\*   0xFF break / payload 255
ByteAlphabet == {1, 56, 66, 128, 130, 159, 248, 255}

RECURSIVE SeqsUpTo(_, _)
SeqsUpTo(S, n) ==
    IF n = 0 THEN {<<>>}
    ELSE LET shorter == SeqsUpTo(S, n - 1)
         IN  shorter \cup {Append(s, b) : s \in {t \in shorter : Len(t) = n - 1}, b \in S}

ByteMsgs == SeqsUpTo(ByteAlphabet, MaxMsgLen)

RECURSIVE Repeat(_, _)
Repeat(b, n) == IF n = 0 THEN <<>> ELSE <<b>> \o Repeat(b, n - 1)

\* Every header byte, alone and followed by one or two bytes.
HeaderMsgs ==
    {<<h>> \o t : h \in 0..255, t \in {<<>>, <<1>>, <<22>>, <<128>>, <<0, 1>>, <<128, 0>>}}

\* Items with 4 or 8 following bytes: a header of major type 0, 1, 2, 4 or
\* 7, a payload whose first byte and last byte vary, and an optional tail.
WideHeaders == {26, 27, 58, 59, 90, 91, 154, 155, 250, 251}

WidePayload(w) ==
    {<<top>> \o Repeat(0, w - 2) \o <<low>> : top \in {0, 21, 127, 128}, low \in {0, 1, 21}}

WideMsgs ==
    {<<h>> \o p \o t : h \in WideHeaders, p \in WidePayload(4) \cup WidePayload(8),
                       t \in {<<>>, <<1>>}}

\* Unsigned integers, negative integers and simple values of one following
\* byte, with every value of that byte.
UnsignedMsgs == {<<24, v>> : v \in 0..255}

NegativeMsgs == {<<56, v>> : v \in 0..255}

SimpleMsgs == {<<248, v>> : v \in 0..255}

\* k empty arrays, or k empty indefinite-length arrays, one after the other
\* and followed by one unsigned integer.
RECURSIVE Times(_, _)
Times(s, k) == IF k = 0 THEN <<>> ELSE s \o Times(s, k - 1)

SiblingMsgs ==
    {Times(s, k) \o <<1>> : s \in {<<128>>, <<159, 255>>},
                            k \in 0..(CBOR_RECURSION_MAX_LEVEL + 1)}

\* d arrays of one item nested around one unsigned integer.
NestedMsgs == {Repeat(129, d) \o <<1>> : d \in 0..(CBOR_RECURSION_MAX_LEVEL + 1)}

\* What the caller's output buffer holds before the call.
Fills == {0, 170}

\* ------------------------------------------------------------- the machine

\* ctx    struct decode_context (buf and msg are the arrays themselves;
\*        the C index i is the TLA+ index i + 1)
\* stack  the activations of decode_cbor, innermost last: maxitem, item
\* err    the err of the innermost activation, or of cbor_decode
\* pc     where the program is: "entry" before line 328, "loop" at line
\*        125, "return" at line 152, "done" after line 338, "ub" after an
\*        access outside msg or buf
VARIABLES ctx, stack, err, pc

vars == <<ctx, stack, err, pc>>

M == [ctx |-> ctx, stack |-> stack, err |-> err, pc |-> pc]

Becomes(m) ==
    \E next \in {m} :
        /\ ctx' = next.ctx
        /\ stack' = next.stack
        /\ err' = next.err
        /\ pc' = next.pc

\* cbor_decode, lines 319-326.
InitCtx(buf, msg) ==
    [buf |-> buf, bufsize |-> Len(buf), bufidx |-> 0,
     msg |-> msg, msgsize |-> Len(msg), msgidx |-> 0,
     major_type |-> 0, additional_info |-> 0, following_bytes |-> 0,
     recursion_depth |-> 0]

InitM(buf, msg) ==
    [ctx |-> InitCtx(buf, msg), stack |-> <<>>, err |-> "CBOR_SUCCESS", pc |-> "entry"]

Inputs ==
    {<<msg, n>> : msg \in ByteMsgs, n \in 0..MaxBufSize}
        \cup {<<msg, n>> : msg \in HeaderMsgs, n \in {0, 1, 2, 3, 4}}
        \cup {<<msg, n>> : msg \in WideMsgs, n \in {0, 1, 3, 4, 7, 8, 9}}
        \cup {<<msg, n>> : msg \in UnsignedMsgs \cup SimpleMsgs, n \in {1, 2}}
        \cup {<<msg, n>> : msg \in NegativeMsgs, n \in {1, 2, 3}}
        \cup {<<msg, n>> : msg \in SiblingMsgs, n \in {1, 2}}
        \cup {<<msg, n>> : msg \in NestedMsgs, n \in {0, 1, 2}}

Starts(m) ==
    /\ ctx = m.ctx
    /\ stack = m.stack
    /\ err = m.err
    /\ pc = m.pc

Init ==
    \E in \in Inputs, fill \in Fills :
        Starts(InitM(Repeat(fill, in[2]), in[1]))

\* ------------------------------------------------------------------ memory

\* The n bytes of msg from C index at on, and whether they are all inside msg.
Load(c, at, n) == [j \in 1..n |-> c.msg[at + j]]

LoadOk(c, at, n) == at + n <= c.msgsize

\* buf with bytes written from C index at on, and whether that stays inside buf.
Store(c, at, bytes) ==
    [c EXCEPT !.buf = [i \in 1..Len(@) |->
        IF at < i /\ i <= at + Len(bytes) THEN bytes[i - at] ELSE @[i]]]

StoreOk(c, at, n) == at + n <= c.bufsize

\* The n bytes of buf from C index at on.
Fetch(c, at, n) == [j \in 1..n |-> c.buf[at + j]]

Reverse(s) == [j \in 1..Len(s) |-> s[Len(s) + 1 - j]]

\* copy_data without the reversal of the little-endian build.
copy_data_unreversed(bytes) == bytes

\* copy_data is copy_data_le in the build modelled: dst[len - i - 1] = src[i].
copy_data(bytes) == Reverse(bytes)

\* copy_data_be: dst[i] = src[i].
copy_data_be(bytes) == bytes

\* A handler's outcome: the context it leaves, the error it returns, and
\* whether it touched memory outside msg or buf.
Outcome(c, e) == [ctx |-> c, err |-> e, ub |-> FALSE]

Undefined(c) == [ctx |-> c, err |-> "CBOR_SUCCESS", ub |-> TRUE]

\* ------------------------------------------------------------------ header

get_major_type(data_item) == data_item \div 32

get_additional_info(data_item) == data_item % (ADDITIONAL_INFO_MASK + 1)

get_following_bytes(additional_info) ==
    IF additional_info < 24 THEN 0
    ELSE IF additional_info = 31 THEN INDEFINITE_VALUE
    ELSE IF additional_info >= 28 THEN RESERVED_VALUE
    ELSE 2 ^ (additional_info - 24)

\* Lines 126-128: the header fields of the item at msgidx.
Classify(c) ==
    LET b == c.msg[c.msgidx + 1]
    IN  [c EXCEPT !.major_type = get_major_type(b),
                  !.additional_info = get_additional_info(b),
                  !.following_bytes = get_following_bytes(get_additional_info(b))]

\* The unsigned difference a - b of two size_t values.
SizeDiff(a, b) == IF a >= b THEN a - b ELSE HugeLen

\* has_valid_buffers_for_following_bytes without the test of lines 104-107.
has_valid_buffers_input_unchecked(c) ==
    IF c.following_bytes = RESERVED_VALUE THEN "CBOR_ILLEGAL"
    ELSE IF c.following_bytes = INDEFINITE_VALUE THEN "ok"
    ELSE IF c.following_bytes > SizeDiff(c.bufsize, c.bufidx) THEN "CBOR_UNDERRUN"
    ELSE "ok"

\* has_valid_buffers_for_following_bytes with the test of line 108 before
\* the test of line 104.
has_valid_buffers_output_first(c) ==
    IF c.following_bytes = RESERVED_VALUE THEN "CBOR_ILLEGAL"
    ELSE IF c.following_bytes = INDEFINITE_VALUE THEN "ok"
    ELSE IF c.following_bytes > SizeDiff(c.bufsize, c.bufidx) THEN "CBOR_UNDERRUN"
    ELSE IF c.following_bytes + 1 > SizeDiff(c.msgsize, c.msgidx) THEN "CBOR_ILLEGAL"
    ELSE "ok"

\* has_valid_buffers_for_following_bytes: "ok", or the error it stores in *err.
has_valid_buffers_for_following_bytes(c) ==
    IF c.following_bytes = RESERVED_VALUE THEN "CBOR_ILLEGAL"
    ELSE IF c.following_bytes = INDEFINITE_VALUE THEN "ok"
    ELSE IF c.following_bytes + 1 > SizeDiff(c.msgsize, c.msgidx) THEN "CBOR_ILLEGAL"
    ELSE IF c.following_bytes > SizeDiff(c.bufsize, c.bufidx) THEN "CBOR_UNDERRUN"
    ELSE "ok"

\* ---------------------------------------------------------------- handlers

do_unsigned_integer(c) ==
    LET fb == c.following_bytes
    IN  IF fb = INDEFINITE_VALUE THEN Outcome(c, "CBOR_ILLEGAL")
        ELSE IF fb = 0
        THEN IF ~StoreOk(c, c.bufidx, 1) THEN Undefined(c)
             ELSE Outcome([Store(c, c.bufidx, <<c.additional_info>>)
                               EXCEPT !.bufidx = @ + 1, !.msgidx = @ + 1],
                          "CBOR_SUCCESS")
        ELSE IF ~LoadOk(c, c.msgidx + 1, fb) \/ ~StoreOk(c, c.bufidx, fb)
        THEN Undefined(c)
        ELSE Outcome([Store(c, c.bufidx, copy_data(Load(c, c.msgidx + 1, fb)))
                          EXCEPT !.bufidx = @ + fb, !.msgidx = @ + fb + 1],
                     "CBOR_SUCCESS")

\* The uint64_t val of do_negative_integer as its 8 bytes in memory.
ValOf(bytes) == [j \in 1..SizeofUint64 |-> IF j <= Len(bytes) THEN bytes[j] ELSE 0]

\* The test of line 201 on the bit below msb_bit.
BitSet_bit_below(val, msb_bit) ==
    (val[((msb_bit - 1) \div 8) + 1] \div (2 ^ ((msb_bit - 1) % 8))) % 2 = 1

\* val & (1lu << msb_bit) on the little-endian host: bit msb_bit is bit
\* msb_bit % 8 of byte msb_bit / 8.
BitSet(val, msb_bit) == (val[(msb_bit \div 8) + 1] \div (2 ^ (msb_bit % 8))) % 2 = 1

\* ~val
Complement(val) == [j \in 1..Len(val) |-> 255 - val[j]]

do_negative_integer(c) ==
    LET buf_start_index == c.bufidx
        r == do_unsigned_integer(c)
    IN  IF r.ub \/ r.err # "CBOR_SUCCESS" THEN r
        ELSE
        LET c1 == r.ctx
            data_size == (c1.bufidx - buf_start_index) % 256
            msb_bit == (data_size * 8 - 1) % 256
            val == ValOf(copy_data_be(Fetch(c1, buf_start_index, data_size)))
            expand == data_size < SizeofUint64 /\ BitSet(val, msb_bit)
            data_type_size == IF expand THEN (data_size * 2) % 256 ELSE data_size
            c2 == [c1 EXCEPT !.bufidx = @ + (data_type_size - data_size)]
            nfill == Min(SizeDiff(c2.bufsize, buf_start_index), 4)
            c3 == Store(c2, buf_start_index, [j \in 1..nfill |-> 255])
            c4 == Store(c3, buf_start_index,
                        copy_data_be(SubSeq(Complement(val), 1, data_size)))
        IN  IF ~StoreOk(c2, buf_start_index, nfill) \/ ~StoreOk(c2, buf_start_index, data_size)
            THEN Undefined(c1)
            ELSE Outcome(c4, "CBOR_SUCCESS")

\* The value of a big-endian byte run, kept as HugeLen from there on.
RECURSIVE BigEndian(_)
BigEndian(bytes) ==
    IF Len(bytes) = 0 THEN 0
    ELSE Min(BigEndian(SubSeq(bytes, 1, Len(bytes) - 1)) * 256 + bytes[Len(bytes)], HugeLen)

\* go_get_item_length: the context with msgidx advanced, and the length.
go_get_item_length(c) ==
    LET fb == c.following_bytes
    IN  IF fb = INDEFINITE_VALUE
        THEN [ctx |-> [c EXCEPT !.msgidx = @ + 1], len |-> 0, ub |-> FALSE]
        ELSE IF fb = 0
        THEN [ctx |-> [c EXCEPT !.msgidx = @ + 1], len |-> c.additional_info, ub |-> FALSE]
        ELSE IF ~LoadOk(c, c.msgidx + 1, fb)
        THEN [ctx |-> c, len |-> 0, ub |-> TRUE]
        ELSE [ctx |-> [c EXCEPT !.msgidx = @ + fb + 1],
              len |-> BigEndian(Load(c, c.msgidx + 1, fb)), ub |-> FALSE]

do_string(c) ==
    LET g == go_get_item_length(c)
        c1 == g.ctx
        maxlen == Min(SizeDiff(c1.bufsize, c1.bufidx), SizeDiff(c1.msgsize, c1.msgidx))
    IN  IF g.ub THEN Undefined(c)
        ELSE IF g.len > maxlen THEN Outcome(c1, "CBOR_ILLEGAL")
        ELSE IF ~LoadOk(c1, c1.msgidx, g.len) \/ ~StoreOk(c1, c1.bufidx, g.len)
        THEN Undefined(c1)
        ELSE Outcome([Store(c1, c1.bufidx, Load(c1, c1.msgidx, g.len))
                          EXCEPT !.bufidx = @ + g.len, !.msgidx = @ + g.len],
                     "CBOR_SUCCESS")

do_tag(c) == Outcome(c, "CBOR_INVALID")

\* get_simple_value without the case of line 282: null is passed through.
get_simple_value_null_kept(val) ==
    IF val = 20 THEN 0
    ELSE IF val = 21 THEN 1
    ELSE val

get_simple_value(val) ==
    IF val = 20 THEN 0
    ELSE IF val = 21 THEN 1
    ELSE IF val = 22 THEN 0
    ELSE val

\* do_float_and_other without the msgidx++ of line 295: the break marker is
\* reported but not consumed.
do_float_and_other_break_unconsumed(c) ==
    IF c.following_bytes = INDEFINITE_VALUE
    THEN Outcome(c, "CBOR_BREAK")
    ELSE
    LET ext == c.following_bytes = 1
        c1 == IF ext /\ LoadOk(c, c.msgidx + 1, 1)
              THEN [c EXCEPT !.following_bytes = 0,
                             !.msgidx = @ + 1,
                             !.additional_info = c.msg[c.msgidx + 2]]
              ELSE c
        valid == has_valid_buffers_for_following_bytes(c1)
        r == do_unsigned_integer(c1)
    IN  IF ext /\ ~LoadOk(c, c.msgidx + 1, 1) THEN Undefined(c)
        ELSE IF valid # "ok" THEN Outcome(c1, valid)
        ELSE IF r.ub THEN r
        ELSE IF r.ctx.following_bytes # 0 THEN r
        ELSE IF r.ctx.bufidx < 1 \/ r.ctx.bufidx > r.ctx.bufsize THEN Undefined(r.ctx)
        ELSE Outcome(Store(r.ctx, r.ctx.bufidx - 1,
                           <<get_simple_value(r.ctx.buf[r.ctx.bufidx])>>),
                     r.err)

do_float_and_other(c) ==
    IF c.following_bytes = INDEFINITE_VALUE
    THEN Outcome([c EXCEPT !.msgidx = @ + 1], "CBOR_BREAK")
    ELSE
    LET ext == c.following_bytes = 1
        c1 == IF ext /\ LoadOk(c, c.msgidx + 1, 1)
              THEN [c EXCEPT !.following_bytes = 0,
                             !.msgidx = @ + 1,
                             !.additional_info = c.msg[c.msgidx + 2]]
              ELSE c
        valid == has_valid_buffers_for_following_bytes(c1)
        r == do_unsigned_integer(c1)
    IN  IF ext /\ ~LoadOk(c, c.msgidx + 1, 1) THEN Undefined(c)
        ELSE IF valid # "ok" THEN Outcome(c1, valid)
        ELSE IF r.ub THEN r
        ELSE IF r.ctx.following_bytes # 0 THEN r
        ELSE IF r.ctx.bufidx < 1 \/ r.ctx.bufidx > r.ctx.bufsize THEN Undefined(r.ctx)
        ELSE Outcome(Store(r.ctx, r.ctx.bufidx - 1,
                           <<get_simple_value(r.ctx.buf[r.ctx.bufidx])>>),
                     r.err)

\* --------------------------------------------------------------- decode_cbor

\* Lines 116-123: the call decode_cbor(ctx, maxitem) up to the loop.  When
\* the depth limit is exceeded the call returns at once, without an
\* activation of its own and without line 152.
Call(m, c, maxitem) ==
    LET c1 == [c EXCEPT !.recursion_depth = (@ + 1) % 256]
    IN  IF c1.recursion_depth > CBOR_RECURSION_MAX_LEVEL
        THEN [m EXCEPT !.ctx = c1, !.err = "CBOR_EXCESSIVE"]
        ELSE [m EXCEPT !.ctx = c1, !.err = "CBOR_SUCCESS", !.pc = "loop",
                       !.stack = Append(@, [maxitem |-> maxitem, item |-> 0])]

\* Lines 136-149, in the innermost activation, once the handler has
\* returned m.err.
AfterCallback(m) ==
    LET top == Len(m.stack)
        frame == m.stack[top]
        item == frame.item + 1
    IN  IF m.err = "CBOR_BREAK" /\ m.ctx.msgidx = m.ctx.msgsize
        THEN [m EXCEPT !.pc = "return"]
        ELSE IF m.err # "CBOR_BREAK" /\ m.err # "CBOR_SUCCESS"
        THEN [m EXCEPT !.pc = "return"]
        ELSE [m EXCEPT !.stack[top].item = item,
                       !.err = "CBOR_SUCCESS",
                       !.pc = IF item >= frame.maxitem /\ frame.maxitem > 0
                              THEN "return" ELSE "loop"]

\* Line 134 for the handlers that do not recurse, then lines 136-149.
Handled(m, r) ==
    IF r.ub THEN [m EXCEPT !.ctx = r.ctx, !.pc = "ub"]
    ELSE AfterCallback([m EXCEPT !.ctx = r.ctx, !.err = r.err])

\* do_recursive: the length, then the nested call; the nested loop runs as
\* further steps, and lines 136-149 follow its return.
do_recursive(m) ==
    LET g == go_get_item_length(m.ctx)
        called == Call(m, g.ctx, g.len)
    IN  IF g.ub THEN [m EXCEPT !.pc = "ub"]
        ELSE IF called.err = "CBOR_EXCESSIVE" THEN AfterCallback(called)
        ELSE called

\* Line 125.
LoopRuns(m) ==
    /\ m.pc = "loop"
    /\ m.ctx.msgidx < m.ctx.msgsize
    /\ m.ctx.bufidx < m.ctx.bufsize

\* Lines 126-130: the loop is at an item whose header passes validation
\* and whose major type is one of types.
Dispatches(m, types) ==
    /\ LoopRuns(m)
    /\ has_valid_buffers_for_following_bytes(Classify(m.ctx)) = "ok"
    /\ Classify(m.ctx).major_type \in types

\* Lines 130-132.
Invalid(m) ==
    /\ LoopRuns(m)
    /\ has_valid_buffers_for_following_bytes(Classify(m.ctx)) # "ok"

Rejected(m) ==
    [m EXCEPT !.ctx = Classify(m.ctx),
              !.err = has_valid_buffers_for_following_bytes(Classify(m.ctx)),
              !.pc = "return"]

\* Lines 152-157 of a nested call, then lines 136-149 of its caller.
Returned(m) ==
    AfterCallback([m EXCEPT !.ctx.recursion_depth = (@ + 255) % 256,
                            !.stack = SubSeq(@, 1, Len(@) - 1)])

\* Finished without the test of lines 331-332 for input left over.
Finished_leftover_untested(m) ==
    [m EXCEPT !.ctx.recursion_depth = (@ + 255) % 256,
              !.stack = <<>>,
              !.pc = "done",
              !.err = IF m.err # "CBOR_SUCCESS" THEN m.err
                      ELSE IF m.ctx.bufidx < m.ctx.bufsize THEN "CBOR_UNDERRUN"
                      ELSE "CBOR_SUCCESS"]

\* Lines 152-157 of the outermost call, then lines 330-338 of cbor_decode.
Finished(m) ==
    [m EXCEPT !.ctx.recursion_depth = (@ + 255) % 256,
              !.stack = <<>>,
              !.pc = "done",
              !.err = IF m.err # "CBOR_SUCCESS" THEN m.err
                      ELSE IF m.ctx.msgidx < m.ctx.msgsize THEN "CBOR_OVERRUN"
                      ELSE IF m.ctx.bufidx < m.ctx.bufsize THEN "CBOR_UNDERRUN"
                      ELSE "CBOR_SUCCESS"]

\* ------------------------------------------------------------------ actions

\* cbor_decode, line 328: the outermost call.
CborDecode ==
    /\ pc = "entry"
    /\ Becomes(Call(M, ctx, 0))

DoUnsignedInteger ==
    /\ Dispatches(M, {0})
    /\ \E r \in {do_unsigned_integer(Classify(ctx))} : Becomes(Handled(M, r))

DoNegativeInteger ==
    /\ Dispatches(M, {1})
    /\ \E r \in {do_negative_integer(Classify(ctx))} : Becomes(Handled(M, r))

DoString ==
    /\ Dispatches(M, {2, 3})
    /\ \E r \in {do_string(Classify(ctx))} : Becomes(Handled(M, r))

DoRecursive ==
    /\ Dispatches(M, {4, 5})
    /\ Becomes(do_recursive([M EXCEPT !.ctx = Classify(ctx)]))

DoTag ==
    /\ Dispatches(M, {6})
    /\ \E r \in {do_tag(Classify(ctx))} : Becomes(Handled(M, r))

DoFloatAndOther ==
    /\ Dispatches(M, {7})
    /\ \E r \in {do_float_and_other(Classify(ctx))} : Becomes(Handled(M, r))

ValidationFails ==
    /\ Invalid(M)
    /\ Becomes(Rejected(M))

LoopEnds ==
    /\ pc = "loop"
    /\ ~LoopRuns(M)
    /\ Becomes([M EXCEPT !.pc = "return"])

DecodeCborReturns ==
    /\ pc = "return"
    /\ Len(stack) > 1
    /\ Becomes(Returned(M))

CborDecodeReturns ==
    /\ pc = "return"
    /\ Len(stack) = 1
    /\ Becomes(Finished(M))

Next ==
    \/ CborDecode
    \/ DoUnsignedInteger
    \/ DoNegativeInteger
    \/ DoString
    \/ DoRecursive
    \/ DoTag
    \/ DoFloatAndOther
    \/ ValidationFails
    \/ LoopEnds
    \/ DecodeCborReturns
    \/ CborDecodeReturns

Spec == Init /\ [][Next]_vars

\* The decodes followed to their end: every message of up to MaxMsgLen - 1
\* bytes of one header of each kind, and the nested and sibling containers.
LiveAlphabet == {1, 56, 65, 129, 159, 192, 248, 255}

LiveInputs ==
    (SeqsUpTo(LiveAlphabet, MaxMsgLen - 1) \X (0..2))
        \cup ((SiblingMsgs \cup NestedMsgs) \X {1})

LiveInit == \E in \in LiveInputs : Starts(InitM(Repeat(0, in[2]), in[1]))

\* cbor_decode is sequential code that runs until it returns: a step that
\* can be taken is taken.
FairSpec == LiveInit /\ [][Next]_vars /\ WF_vars(Next)

\* --------------------------------------------------------- the whole decode

\* The one step the program takes from m.
Step(m) ==
    IF m.pc = "entry" THEN Call(m, m.ctx, 0)
    ELSE IF m.pc = "return"
         THEN IF Len(m.stack) > 1 THEN Returned(m) ELSE Finished(m)
    ELSE IF ~LoopRuns(m) THEN [m EXCEPT !.pc = "return"]
    ELSE IF Invalid(m) THEN Rejected(m)
    ELSE LET c == Classify(m.ctx)
         IN  CASE c.major_type = 0 -> Handled(m, do_unsigned_integer(c))
               [] c.major_type = 1 -> Handled(m, do_negative_integer(c))
               [] c.major_type \in {2, 3} -> Handled(m, do_string(c))
               [] c.major_type \in {4, 5} -> do_recursive([m EXCEPT !.ctx = c])
               [] c.major_type = 6 -> Handled(m, do_tag(c))
               [] c.major_type = 7 -> Handled(m, do_float_and_other(c))

RECURSIVE Run(_)
Run(m) == IF m.pc \in {"done", "ub"} THEN m ELSE Run(Step(m))

\* cbor_decode(buf, bufsize, msg, msgsize) as a function: the final state.
cbor_decode(buf, msg) == Run(InitM(buf, msg))

TypeOK ==
    /\ pc \in {"entry", "loop", "return", "done", "ub"}
    /\ err \in {"CBOR_SUCCESS", "CBOR_ILLEGAL", "CBOR_INVALID", "CBOR_OVERRUN",
                "CBOR_UNDERRUN", "CBOR_BREAK", "CBOR_EXCESSIVE"}
    /\ Len(ctx.buf) = ctx.bufsize
    /\ Len(ctx.msg) = ctx.msgsize

\* Every step of the machine is the step of the function.
StepIsNext == [][M' = Step(M)]_vars

\* ------------------------------------------------------------------ claims

Top == stack[Len(stack)]

\* C1: during cbor_decode every read of msg is at an index below msgsize
\* and every write to buf is at an index below bufsize, in every handler and
\* at every recursion level, for every message and capacity (0 included):
\* the program never reaches the state that follows an access outside them.
C1_MemorySafe == pc # "ub"

\* A negative integer of one following byte, promoted to two bytes and
\* pre-filled, has been decoded inside an array, up to the last byte of buf
\* and of msg.
C1_Witness ==
    /\ pc \in {"loop", "return"}
    /\ Len(stack) >= 2
    /\ ctx.major_type = 1
    /\ ctx.following_bytes = 1
    /\ ctx.bufsize >= 2
    /\ ctx.bufidx = ctx.bufsize
    /\ ctx.msgidx = ctx.msgsize
    /\ ctx.buf[ctx.bufsize] = 255

\* C2: in every state of a decode bufidx <= bufsize and msgidx <= msgsize,
\* and neither cursor ever decreases.
C2_CursorsBounded ==
    /\ [](ctx.bufidx <= ctx.bufsize /\ ctx.msgidx <= ctx.msgsize)
    /\ [][ctx'.bufidx >= ctx.bufidx /\ ctx'.msgidx >= ctx.msgidx]_vars

\* C3: cbor_decode returns CBOR_SUCCESS only if the whole input was consumed
\* and the output was exactly filled.
C3_SuccessIsExact ==
    (pc = "done" /\ err = "CBOR_SUCCESS") =>
        (ctx.msgidx = ctx.msgsize /\ ctx.bufidx = ctx.bufsize)

\* C5: the result cbor_decode returns is never CBOR_BREAK.
C5_BreakNeverEscapes == pc = "done" => err # "CBOR_BREAK"

\* ----------------------------------------------- the format, for the claims
\*
\* What a message is, read from the wire format alone: the items it is made
\* of and the bytes a decode of it owes (its flattened transcription).  A
\* result is [st, next, out, plain]:
\*   st     "ok", "break" (a break marker), "short" (the input ends inside
\*          an item), "ends" (the input ends between the items of a
\*          definite-length array or map that still misses some), "open"
\*          (an indefinite-length array or map without its break marker),
\*          "stray" (a break marker at top level or directly inside a
\*          definite-length array or map), "bad" (anything else: reserved
\*          additional-info, tag, indefinite-length scalar or string,
\*          nesting beyond what decode_cbor accepts)
\*   next   the index after what was read
\*   out    the transcription so far
\*   plain  no negative integer and no float so far

RefNesting == CBOR_RECURSION_MAX_LEVEL - 1

RefWidth(ai) == IF ai < 24 THEN 0 ELSE 2 ^ (ai - 24)

RefSimple(v) == IF v \in {20, 22} THEN 0 ELSE IF v = 21 THEN 1 ELSE v

\* The two's-complement -(n+1) of the magnitude n given least significant
\* byte first, in the width of n, doubled when the top bit of n is set and
\* the width is below 8: -(n+1) = 2^(8W) - 1 - n has the bytes 255 - n[j].
RefNegative(n) ==
    LET w == Len(n)
        W == IF w < 8 /\ n[w] >= 128 THEN 2 * w ELSE w
    IN  [j \in 1..W |-> IF j <= w THEN 255 - n[j] ELSE 255]

RefRes(st, next, out, plain) == [st |-> st, next |-> next, out |-> out, plain |-> plain]

RECURSIVE RefSeq(_, _, _, _, _, _, _)
RECURSIVE RefItem(_, _, _)

\* The items from index i on: n more of them (mode "count"), up to a break
\* marker (mode "break"), or up to the end of the input (mode "top").
RefSeq(msg, i, mode, n, depth, out, plain) ==
    IF mode = "count" /\ n = 0 THEN RefRes("ok", i, out, plain)
    ELSE IF i >= Len(msg)
    THEN RefRes(IF mode = "top" THEN "ok" ELSE IF mode = "count" THEN "ends" ELSE "open",
                i, out, plain)
    ELSE LET it == RefItem(msg, i, depth)
         IN  IF it.st = "break"
             THEN RefRes(IF mode = "break" THEN "ok" ELSE "stray", it.next, out, plain)
             ELSE IF it.st # "ok" THEN it
             ELSE RefSeq(msg, it.next, mode, IF mode = "count" THEN n - 1 ELSE n,
                         depth, out \o it.out, plain /\ it.plain)

\* The item whose header is at index i < Len(msg), inside depth containers.
RefItem(msg, i, depth) ==
    LET mt == msg[i + 1] \div 32
        ai == msg[i + 1] % 32
        w == RefWidth(ai)
        payload == [j \in 1..w |-> msg[i + 1 + j]]
        after == i + 1 + w
        value == IF ai < 24 THEN ai ELSE BigEndian(payload)
    IN  IF ai \in 28..30 THEN RefRes("bad", i, <<>>, TRUE)
        ELSE IF ai = 31
        THEN IF mt = 7 THEN RefRes("break", i + 1, <<>>, TRUE)
             ELSE IF mt \in {4, 5} /\ depth < RefNesting
             THEN RefSeq(msg, i + 1, "break", 0, depth + 1, <<>>, TRUE)
             ELSE RefRes("bad", i, <<>>, TRUE)
        ELSE IF mt = 6 THEN RefRes("bad", i, <<>>, TRUE)
        ELSE IF after > Len(msg) THEN RefRes("short", i, <<>>, TRUE)
        ELSE CASE mt = 0 ->
                    RefRes("ok", after, IF w = 0 THEN <<ai>> ELSE Reverse(payload), TRUE)
               [] mt = 1 ->
                    RefRes("ok", after,
                           RefNegative(IF w = 0 THEN <<ai>> ELSE Reverse(payload)), FALSE)
               [] mt = 7 ->
                    IF w = 0 THEN RefRes("ok", after, <<RefSimple(ai)>>, TRUE)
                    ELSE IF w = 1 THEN RefRes("ok", after, <<RefSimple(payload[1])>>, TRUE)
                    ELSE RefRes("ok", after, Reverse(payload), FALSE)
               [] mt \in {2, 3} ->
                    IF value > Len(msg) - after THEN RefRes("short", i, <<>>, TRUE)
                    ELSE RefRes("ok", after + value,
                                [j \in 1..value |-> msg[after + j]], TRUE)
               [] mt \in {4, 5} ->
                    IF depth < RefNesting
                    THEN RefSeq(msg, after, "count", value, depth + 1, <<>>, TRUE)
                    ELSE RefRes("bad", i, <<>>, TRUE)

\* The message as the sequence of its top-level items.
RefMessage(msg) == RefSeq(msg, 0, "top", 0, 0, <<>>, TRUE)

\* C4: if an array or map header declares N >= 1 items and the input ends
\* after fewer than N items of that container, cbor_decode does not return
\* Success, whatever the capacity.
C4_TruncatedContainerFails ==
    (pc = "done" /\ RefMessage(ctx.msg).st = "ends") => err # "CBOR_SUCCESS"

\* C6: for every well-formed message of unsigned integers, strings, simple
\* values and definite-length or break-terminated arrays and maps, with a
\* capacity equal to the size of its transcription, cbor_decode returns
\* Success and the output buffer equals the transcription.
C6_RoundTrip ==
    LET ref == RefMessage(ctx.msg)
    IN  (pc = "done" /\ ref.st = "ok" /\ ref.plain /\ ctx.bufsize = Len(ref.out)) =>
            (err = "CBOR_SUCCESS" /\ ctx.buf = ref.out)

\* C7: for every well-formed message that needs K >= 1 output bytes,
\* cbor_decode with a capacity of K - 1 returns CBOR_UNDERRUN.
C7_OneByteShortIsUnderrun ==
    LET ref == RefMessage(ctx.msg)
    IN  (pc = "done" /\ ref.st = "ok" /\ Len(ref.out) >= 1
                     /\ ctx.bufsize = Len(ref.out) - 1) =>
            err = "CBOR_UNDERRUN"

\* The item the loop is at declares one more following byte than the input
\* still holds, and the output has room for the following bytes.
ShortOfFollowingBytes(c) ==
    LET h == Classify(c)
    IN  /\ h.major_type # 6
        /\ h.following_bytes \in {1, 2, 4, 8}
        /\ c.msgsize - c.msgidx - 1 = h.following_bytes - 1
        /\ c.bufsize - c.bufidx >= h.following_bytes

\* The item the loop is at is a byte or text string whose length field is
\* complete and whose resolved length is one more than the bytes the input
\* holds after it, and the output has room for the declared length.
ShortOfStringBytes(c) ==
    LET h == Classify(c)
        w == IF h.following_bytes \in {1, 2, 4, 8} THEN h.following_bytes ELSE 0
        len == IF w = 0 THEN h.additional_info ELSE BigEndian(Load(c, c.msgidx + 1, w))
    IN  /\ h.major_type \in {2, 3}
        /\ h.following_bytes \in {0, 1, 2, 4, 8}
        /\ c.msgsize - c.msgidx - 1 >= w
        /\ c.msgsize - c.msgidx - 1 - w = len - 1
        /\ c.bufsize - c.bufidx >= len

\* C8: when the item the loop reaches declares one more payload byte than
\* the input still holds (as following bytes, or as the length of a string)
\* and the output is large enough for the declared payload, cbor_decode
\* returns CBOR_ILLEGAL and reads no byte at an index >= msgsize.
C8_OneByteTruncatedIsIllegal ==
    (LoopRuns(M) /\ (ShortOfFollowingBytes(ctx) \/ ShortOfStringBytes(ctx))) =>
        (Run(M).pc = "done" /\ Run(M).err = "CBOR_ILLEGAL")

\* C9: whenever cbor_decode returns Success on a message M with capacity K,
\* it returns CBOR_OVERRUN on M followed by any one byte with the same
\* capacity (the second call is given the buffer the first one has left).
C9_TrailingByteIsOverrun ==
    (pc = "done" /\ err = "CBOR_SUCCESS") =>
        \A b \in 0..255 :
            LET r == cbor_decode(ctx.buf, Append(ctx.msg, b))
            IN  r.pc = "done" /\ r.err = "CBOR_OVERRUN"

\* Success on a message of three bytes or more that starts with an array.
C9_Witness ==
    /\ pc = "done"
    /\ err = "CBOR_SUCCESS"
    /\ ctx.msgsize >= 3
    /\ ctx.bufsize >= 2
    /\ get_major_type(ctx.msg[1]) = 4

\* C10: after do_negative_integer on an item encoding n inline or in 1, 2,
\* 4 or 8 following bytes, the W bytes of output from the item's start to
\* the advanced write cursor (W the width of n, doubled when promoted) hold
\* the two's-complement -(n+1) in host byte order, whatever the buffer held
\* before.  Stated for the items whose W bytes lie inside the buffer.
C10_NegativeIsTwosComplement ==
    [][LET h == Classify(ctx)
           n == IF h.following_bytes = 0 THEN <<h.additional_info>>
                ELSE Reverse(Load(ctx, ctx.msgidx + 1, h.following_bytes))
           expected == RefNegative(n)
       IN  (DoNegativeInteger /\ h.following_bytes # INDEFINITE_VALUE
                              /\ ctx.bufidx + Len(expected) <= ctx.bufsize) =>
               /\ ctx'.bufidx - ctx.bufidx = Len(expected)
               /\ Fetch(ctx', ctx.bufidx, Len(expected)) = expected]_vars

\* The magnitude n of the negative integer the loop is at, least
\* significant byte first, in its encoded width.
NegativeMagnitude(c) ==
    LET h == Classify(c)
    IN  IF h.following_bytes = 0 THEN <<h.additional_info>>
        ELSE Reverse(Load(c, c.msgidx + 1, h.following_bytes))

\* do_negative_integer runs on an item that is not indefinite-length.
NegativeDecoded == DoNegativeInteger /\ Classify(ctx).following_bytes # INDEFINITE_VALUE

\* The write cursor advances by twice the width of n exactly when the width
\* is below 8 and the top bit of n at that width is set, by the width
\* otherwise.
PromotedWhenTopBitSet ==
    LET n == NegativeMagnitude(ctx)
        w == Len(n)
    IN  ctx'.bufidx - ctx.bufidx = IF w < 8 /\ n[w] >= 128 THEN 2 * w ELSE w

\* The negative integer the loop is at has one following byte of value v.
OneByteMagnitude(v) ==
    /\ Classify(ctx).following_bytes = 1
    /\ NegativeMagnitude(ctx) = <<v>>

\* C11 as stated: the width doubles exactly when it is below 8 and the top
\* bit of n is set, and n = 127 in one following byte gives a 2-byte result
\* while n = 126 gives a 1-byte result.
C11_PromotionAt127 ==
    [][NegativeDecoded =>
          /\ PromotedWhenTopBitSet
          /\ OneByteMagnitude(127) => ctx'.bufidx - ctx.bufidx = 2
          /\ OneByteMagnitude(126) => ctx'.bufidx - ctx.bufidx = 1]_vars

\* C11, amended: the width doubles exactly when it is below 8 and the top
\* bit of n is set; n = 128 in one following byte gives a 2-byte result
\* while n = 127 (and n = 126) gives a 1-byte result.
C11_PromotionAt128 ==
    [][NegativeDecoded =>
          /\ PromotedWhenTopBitSet
          /\ OneByteMagnitude(128) => ctx'.bufidx - ctx.bufidx = 2
          /\ OneByteMagnitude(127) => ctx'.bufidx - ctx.bufidx = 1
          /\ OneByteMagnitude(126) => ctx'.bufidx - ctx.bufidx = 1]_vars

\* n = 128 in one following byte has been decoded into two bytes, -129.
C11_Witness ==
    /\ pc = "loop"
    /\ ctx.msg = <<56, 128>>
    /\ ctx.major_type = 1
    /\ ctx.msgidx = 2
    /\ ctx.bufidx = 2
    /\ ctx.bufsize = 2
    /\ ctx.buf = <<127, 255>>

\* C12: every call of decode_cbor leaves recursion_depth as it found it, on
\* every exit path: the depth is the number of calls in progress while the
\* decode runs, and 0 once the outermost call has returned.
C12_DepthBalanced ==
    /\ pc \in {"loop", "return"} => ctx.recursion_depth = Len(stack)
    /\ pc = "done" => ctx.recursion_depth = 0

\* d arrays of one item nested around the unsigned integer 1.
Nested(d) == Repeat(129, d) \o <<1>>

\* C13: d nested arrays around one scalar, with a buffer of the scalar's
\* size, decode with Success when d = CBOR_RECURSION_MAX_LEVEL and with
\* Excessive when d = CBOR_RECURSION_MAX_LEVEL + 1.
C13_NestingAtMaxLevel ==
    (pc = "done" /\ ctx.bufsize = 1) =>
        /\ ctx.msg = Nested(CBOR_RECURSION_MAX_LEVEL) => err = "CBOR_SUCCESS"
        /\ ctx.msg = Nested(CBOR_RECURSION_MAX_LEVEL + 1) => err = "CBOR_EXCESSIVE"

\* The n output bytes from C index at on are the payload (most significant
\* byte first in the message) in host byte order, least significant first.
HostOrder(c, at, payload) ==
    \A j \in 1..Len(payload) : c.buf[at + j] = payload[Len(payload) + 1 - j]

\* The output bytes outside the n bytes from C index at on are those of before.
OnlyWrites(before, after, at, n) ==
    /\ Len(after.buf) = Len(before.buf)
    /\ \A i \in 1..Len(before.buf) :
           (i <= at \/ i > at + n) => after.buf[i] = before.buf[i]

\* The cursors of after are those of before, moved by dbuf and dmsg.
Advances(before, after, dbuf, dmsg) ==
    /\ after.bufidx = before.bufidx + dbuf
    /\ after.msgidx = before.msgidx + dmsg

C15_StrayBreakFails ==
    (pc = "done" /\ RefMessage(ctx.msg).st = "stray") => err # "CBOR_SUCCESS"

\* The containers open at some index of a message, outermost first: for
\* each the number of items it still misses, or Unbounded when it is
\* indefinite-length.
Unbounded == 0 - 1

\* open without the definite-length containers that have all their items.
RECURSIVE RefClosed(_)
RefClosed(open) ==
    IF open # <<>> /\ open[Len(open)] = 0
    THEN RefClosed(SubSeq(open, 1, Len(open) - 1))
    ELSE open

\* open once the innermost container has received one more item.
RefCounted(open) ==
    IF open = <<>> \/ open[Len(open)] = Unbounded THEN open
    ELSE [open EXCEPT ![Len(open)] = @ - 1]

\* The number of containers that syntactically enclose the item whose header
\* is at index at, reading the message from index i on with the containers
\* open there; Unbounded when at is not the header of an item, or when the
\* message is not well-formed before it.
RECURSIVE RefEnclosingFrom(_, _, _, _)
RefEnclosingFrom(msg, i, open, at) ==
    LET now == RefClosed(open)
        mt == msg[i + 1] \div 32
        ai == msg[i + 1] % 32
        w == RefWidth(ai)
        after == i + 1 + w
        value == IF ai < 24 THEN ai ELSE BigEndian([j \in 1..w |-> msg[i + 1 + j]])
    IN  IF i >= Len(msg) \/ i > at THEN Unbounded
        ELSE IF i = at THEN Len(now)
        ELSE IF ai \in 28..30 \/ mt = 6 THEN Unbounded
        ELSE IF ai = 31
        THEN IF mt = 7 /\ now # <<>> /\ now[Len(now)] = Unbounded
             THEN RefEnclosingFrom(msg, i + 1, SubSeq(now, 1, Len(now) - 1), at)
             ELSE IF mt \in {4, 5}
             THEN RefEnclosingFrom(msg, i + 1, Append(RefCounted(now), Unbounded), at)
             ELSE Unbounded
        ELSE IF after > Len(msg) THEN Unbounded
        ELSE IF mt \in {4, 5}
        THEN RefEnclosingFrom(msg, after, Append(RefCounted(now), value), at)
        ELSE IF mt \in {2, 3}
        THEN RefEnclosingFrom(msg, after + value, RefCounted(now), at)
        ELSE RefEnclosingFrom(msg, after, RefCounted(now), at)

RefEnclosing(msg, at) == RefEnclosingFrom(msg, 0, <<>>, at)

\* C16: the nested loop of an array or map ends with that container, so
\* that whenever an item is dispatched recursion_depth is 1 plus the number
\* of containers that syntactically enclose it, and Excessive is returned
\* only for messages with an item enclosed by more than
\* CBOR_RECURSION_MAX_LEVEL containers.
C16_DepthIsNesting ==
    /\ (Dispatches(M, 0..7) /\ RefEnclosing(ctx.msg, ctx.msgidx) # Unbounded) =>
           ctx.recursion_depth = 1 + RefEnclosing(ctx.msg, ctx.msgidx)
    /\ (pc = "done" /\ err = "CBOR_EXCESSIVE") =>
           \E at \in 0..(Len(ctx.msg) - 1) :
               RefEnclosing(ctx.msg, at) > CBOR_RECURSION_MAX_LEVEL

\* C16, for sibling containers alone: a flat sequence of empty or
\* indefinite-length containers is never refused with Excessive.
C16_SiblingsNotExcessive ==
    (pc = "done" /\ ctx.msg \in SiblingMsgs) => err # "CBOR_EXCESSIVE"

\* What the validation of the header at msgidx owes, from the header byte
\* and the bytes left alone: reserved additional-info is Malformed, 31
\* passes, an input shorter than header and following bytes is Malformed,
\* and only then an output shorter than the following bytes is
\* OutputExhausted.
HeaderVerdict(c) ==
    LET ai == c.msg[c.msgidx + 1] % 32
        k == RefWidth(ai)
    IN  IF ai \in 28..30 THEN "CBOR_ILLEGAL"
        ELSE IF ai = 31 THEN "ok"
        ELSE IF c.msgsize - c.msgidx < k + 1 THEN "CBOR_ILLEGAL"
        ELSE IF c.bufsize - c.bufidx < k THEN "CBOR_UNDERRUN"
        ELSE "ok"

HandlerRuns ==
    \/ DoUnsignedInteger
    \/ DoNegativeInteger
    \/ DoString
    \/ DoRecursive
    \/ DoTag
    \/ DoFloatAndOther

\* C17: for the header of every item the loop reaches, additional-info
\* 28..30 ends the decode with Malformed, 31 passes validation, a short
\* input gives Malformed and is tested before a short output, which gives
\* OutputExhausted; when validation fails no handler runs, the cursors and
\* the output buffer are unchanged, and the decode ends with that error.
C17_HeaderValidation ==
    [][LoopRuns(M) =>
        IF HeaderVerdict(ctx) = "ok"
        THEN HandlerRuns /\ ~ValidationFails
        ELSE /\ ValidationFails /\ ~HandlerRuns
             /\ err' = HeaderVerdict(ctx)
             /\ Advances(ctx, ctx', 0, 0)
             /\ ctx'.buf = ctx.buf
             /\ stack' = stack
             /\ Run(M').pc = "done"
             /\ Run(M').err = HeaderVerdict(ctx)
             /\ Advances(ctx, Run(M').ctx, 0, 0)
             /\ Run(M').ctx.buf = ctx.buf]_vars

\* The header 0x19 with one byte after it and a capacity of 1, both short,
\* has been refused as Malformed.
C17_Witness ==
    /\ pc = "return"
    /\ err = "CBOR_ILLEGAL"
    /\ ctx.msg = <<25, 1>>
    /\ ctx.bufsize = 1
    /\ ctx.following_bytes = 2
    /\ ctx.msgidx = 0
    /\ ctx.bufidx = 0

\* C18: a major-type-7 item in inline form (v < 24, 1 input byte) or in
\* one-extension-byte form (0xF8 v, 2 input bytes) writes exactly one
\* output byte, 0 for v = 20, 1 for v = 21, 0 for v = 22 and v otherwise;
\* with 2, 4 or 8 following bytes the payload is transcribed like an
\* unsigned integer and no byte of it is remapped.
C18_SimpleValueRemapped ==
    [][DoFloatAndOther =>
        LET ai == ctx.msg[ctx.msgidx + 1] % 32
            k == RefWidth(ai)
            at == ctx.bufidx
        IN  /\ ai < 24 =>
                /\ err' = "CBOR_SUCCESS"
                /\ ctx'.buf[at + 1] = RefSimple(ai)
                /\ OnlyWrites(ctx, ctx', at, 1)
                /\ Advances(ctx, ctx', 1, 1)
            /\ ai = 24 =>
                /\ err' = "CBOR_SUCCESS"
                /\ ctx'.buf[at + 1] = RefSimple(ctx.msg[ctx.msgidx + 2])
                /\ OnlyWrites(ctx, ctx', at, 1)
                /\ Advances(ctx, ctx', 1, 2)
            /\ ai \in 25..27 =>
                /\ err' = "CBOR_SUCCESS"
                /\ HostOrder(ctx', at, Load(ctx, ctx.msgidx + 1, k))
                /\ OnlyWrites(ctx, ctx', at, k)
                /\ Advances(ctx, ctx', k, k + 1)]_vars

\* 0xF8 0x15 (true in extension form) has been decoded into the byte 1.
C18_Witness ==
    /\ pc = "loop"
    /\ ctx.msg = <<248, 21>>
    /\ ctx.major_type = 7
    /\ ctx.msgidx = 2
    /\ ctx.bufidx = 1
    /\ ctx.buf[1] = 1

\* C19: every cbor_decode call terminates: each iteration of the loop that
\* does not leave the loop strictly increases msgidx, every handler that
\* returns Success or Break has consumed at least the header byte, every
\* nested decode_cbor call follows the consumption of a container header
\* byte, and recursion_depth never exceeds CBOR_RECURSION_MAX_LEVEL + 1.
C19_Terminates ==
    /\ <>(pc = "done")
    /\ [](ctx.recursion_depth <= CBOR_RECURSION_MAX_LEVEL + 1)
    /\ [][/\ (pc = "loop" /\ pc' = "loop") => ctx'.msgidx > ctx.msgidx
          /\ (HandlerRuns /\ err' \in {"CBOR_SUCCESS", "CBOR_BREAK"}) =>
                 ctx'.msgidx > ctx.msgidx
          /\ (DoRecursive /\ Len(stack') > Len(stack)) =>
                 ctx'.msgidx > ctx.msgidx]_vars

\* A decode that went through a break marker in the middle of the input and
\* a nested call has returned.
C19_Witness ==
    /\ pc = "done"
    /\ ctx.msgsize = 3
    /\ ctx.msg[1] = 159
    /\ ctx.msg[2] = 255
    /\ ctx.msgidx = 3

\* C20: two cbor_decode runs on the same message and the same capacity
\* that start from different contents of the output buffer return the same
\* result code and, when it is Success, the same output bytes in
\* [0, bufsize): the run of this behaviour against the runs from the buffer
\* filled with each byte of Fills.
C20_OutputIsFunctionOfInput ==
    pc = "done" =>
        \A fill \in Fills :
            LET other == cbor_decode(Repeat(fill, ctx.bufsize), ctx.msg)
            IN  /\ other.pc = "done"
                /\ other.err = err
                /\ err = "CBOR_SUCCESS" => other.ctx.buf = ctx.buf

====
